---- MODULE Spec2Model ----
(***************************************************************************)
(* Volume ordering of webndb (apps/db-api): the create-volume and          *)
(* update-volume request handlers, the service functions they call, and    *)
(* the PostgreSQL tables `volume`, `volume_ordering` and `volume_title`    *)
(* they write, statement by statement, inside the request transaction.     *)
(*                                                                         *)
(* A request is a process with a program counter.  Every SQL statement is  *)
(* one step.  A transaction keeps its uncommitted row versions in its own  *)
(* write set; a statement sees the committed rows overridden by the write  *)
(* set of its own transaction (READ COMMITTED, the engine default).        *)
(* Constraints declared in models.py are checked at the end of each        *)
(* statement.                                                              *)
(*                                                                         *)
(* Also: the create-novel request, which adds the rows of `novel`, and the *)
(* page token functions of api/pagination.py, called with the server's     *)
(* clock for the age of a token.                                           *)
(***************************************************************************)
EXTENDS Integers, Sequences, FiniteSets, TLC

\* app/const.py (imported by models.py, views.py, schemas.py)
VOLUME_ORDER_MAX == 3

\* msgspec.UNSET and Python None for the optional integer `volume_order`
UNSET == -1
NONE == 0

\* Identity values the volume_id column may take
MaxVolumeId == 3
VolumeIds == 1..MaxVolumeId

\* Rows of the novel table that have their volume_ordering record
SeedNovels == {1, 2}
\* Identity values the novel_id column may take
MaxNovelId == 4
NovelIds == 1..MaxNovelId
\* a novel id that is not in the novel table
NoNovel == 0

\* Request slots
Reqs == {1, 2}

\* Title lists a request body may carry (languages only); << >> is UNSET
UNSET_TITLES == << >>
TitleInputs == {<<"en">>, <<"en", "en">>}

VARIABLES
    novel,            \* committed rows of table novel (their novel_id)
    volume,           \* committed rows of table volume
    volume_ordering,  \* committed rows of table volume_ordering, by novel_id
    volume_title,     \* committed rows of table volume_title
    meili_index,      \* documents of the search index 'volumes'
    req,              \* per request: inputs, locals, position, write set
    clock,            \* the server's time in seconds
    held,             \* the page token the client keeps from a response
    call              \* the last call of a pagination function

\* The state of the page token functions and their caller
codec == <<clock, held, call>>

vars == <<novel, volume, volume_ordering, volume_title, meili_index, req,
          clock, held, call>>

-----------------------------------------------------------------------------
(* Helpers *)

Min(a, b) == IF a < b THEN a ELSE b

\* Python list.insert(i, x) for i >= 0
ListInsert(s, i, x) ==
    LET j == Min(i, Len(s))
    IN SubSeq(s, 1, j) \o <<x>> \o SubSeq(s, j + 1, Len(s))

RECURSIVE find_repeated_from(_, _, _), find_repeated_adjacent(_, _, _)
\* find_repeated_from that remembers the language before this one only
find_repeated_adjacent(titles, i, seen) ==
    IF i > Len(titles) THEN "None"
    ELSE IF titles[i] \in seen THEN titles[i]
    ELSE find_repeated_adjacent(titles, i + 1, {titles[i]})

find_repeated_from(titles, i, seen) ==
    IF i > Len(titles) THEN "None"
    ELSE IF titles[i] \in seen THEN titles[i]
    ELSE find_repeated_from(titles, i + 1, seen \cup {titles[i]})

\* find_repeated_lang_titles that finds nothing
find_repeated_never(titles) == "None"

find_repeated_lang_titles(titles) == find_repeated_from(titles, 1, {})

\* Primary key of a volume row: (volume_id, novel_id)
Key(row) == <<row.volume_id, row.novel_id>>
Keys(rows) == {Key(x) : x \in rows}

\* Rows of `volume` a statement of request r sees
VisibleVolume(r) ==
    {x \in volume : Key(x) \notin Keys(req[r].rows)} \cup req[r].rows

\* Rows of `volume_title` a statement of request r sees
VisibleTitle(r) ==
    {t \in volume_title : t.volume_id \notin req[r].tdel} \cup req[r].tadd

\* UniqueConstraint('novel_id', 'volume_order')
UniqueOrder(rows) ==
    \A x, y \in rows :
        (x.novel_id = y.novel_id /\ x.volume_order = y.volume_order) => x = y

\* volume_order_limit without its upper bound
OrderLimit_no_maximum(rows) ==
    \A x \in rows : x.volume_order >= 1

\* CheckConstraint volume_order_limit
OrderLimit(rows) ==
    \A x \in rows : x.volume_order >= 1 /\ x.volume_order <= VOLUME_ORDER_MAX

\* CheckConstraints volume_next_order_limit and volume_ordering_cardinality
OrderingLimit(vo) ==
    /\ vo.next_order >= 1
    /\ vo.next_order <= VOLUME_ORDER_MAX + 1
    /\ Len(vo.ordering) <= VOLUME_ORDER_MAX

\* The write set after an UPDATE that gives the rows `targets` the order f[x]
WriteRows(r, newrows) ==
    {x \in req[r].rows : Key(x) \notin Keys(newrows)} \cup newrows

ViewAfter(r, newrows) ==
    {x \in VisibleVolume(r) : Key(x) \notin Keys(newrows)} \cup newrows

-----------------------------------------------------------------------------
(* Python values of the page token functions *)

\* None
PyNone == [t |-> "NoneType"]
\* a str
PyStr(s) == [t |-> "str", s |-> s]

\* msgspec.UNSET in the place of a page token
UNSET_TOKEN == [t |-> "UnsetType"]
\* The tuple (None, True)
LastPage == [t |-> "tuple", place |-> PyNone, backwards |-> TRUE]

\* The record of a call: no function has been called
NoCall == [fn |-> "none"]

-----------------------------------------------------------------------------
(* Page tokens: api/pagination.py *)

\* app/config.py
DEFAULT_PAGE_SIZE == 20
MAX_PAGE_SIZE == 1000
\* The key of f = Fernet(PAGE_TOKEN_KEY), and a key the server does not use
PAGE_TOKEN_KEY == "PAGE_TOKEN_KEY"
OtherKey == "other key"
\* Seconds a page token is accepted after it was made
PAGE_TOKEN_TTL == 2
\* The last second of the clock
MaxClock == 4

INVALID_PAGE_TOKEN_MESSAGE == "Invalid page token"

\* repr() of a str that has no quote in it
py_repr(s) == "'" \o s \o "'"
\* str([filter, path])
py_str_list(filter, path) ==
    "[" \o py_repr(filter) \o ", " \o py_repr(path) \o "]"
\* md5(text).hexdigest(); the digests of different texts differ
md5_hexdigest(text) == "md5(" \o text \o ")"

\* hash_request_contents over the filter alone
hash_filter_only(request, path) ==
    md5_hexdigest("[" \o py_repr(request.filter) \o "]")

\* hash_request_contents over the filter, the path and the query term
hash_with_query(request, path) ==
    md5_hexdigest("[" \o py_repr(request.filter) \o ", " \o py_repr(path)
                  \o ", " \o py_repr(request.q) \o "]")

hash_request_contents(request, path) ==
    md5_hexdigest(py_str_list(request.filter, path))

\* msgspec.json.encode of a str or of the tuple (None, bool)
json_value(v) ==
    IF v.t = "str" THEN [j |-> "string", s |-> v.s]
    ELSE IF v.t = "tuple"
    THEN [j |-> "array",
          items |-> <<[j |-> "null"], [j |-> "bool", b |-> v.backwards]>>]
    ELSE [j |-> "null"]

\* msgspec.json.encode(page_token) for the array_like struct PageToken
json_encode(page_token) ==
    [j |-> "array", items |-> <<json_value(PyStr(page_token.request_hash)),
                                json_value(page_token.bookmark)>>]

\* The bookmark field as msgspec reads it: str | tuple[None, bool]
json_bookmark(v) ==
    IF v.j = "string" THEN [ok |-> TRUE, value |-> PyStr(v.s)]
    ELSE IF v.j = "array" /\ Len(v.items) = 2 /\ v.items[1].j = "null"
            /\ v.items[2].j = "bool"
    THEN [ok |-> TRUE,
          value |-> [t |-> "tuple", place |-> PyNone,
                     backwards |-> v.items[2].b]]
    ELSE [ok |-> FALSE, value |-> PyNone]

\* msgspec.json.decode(raw_page_token, type=PageToken)
json_decode(raw) ==
    IF raw.j = "array" /\ Len(raw.items) = 2 /\ raw.items[1].j = "string"
       /\ json_bookmark(raw.items[2]).ok
    THEN [ok |-> TRUE, request_hash |-> raw.items[1].s,
          bookmark |-> json_bookmark(raw.items[2]).value]
    ELSE [ok |-> FALSE, request_hash |-> "", bookmark |-> PyNone]

\* Fernet(key).encrypt(data) at time now, as a str
fernet_encrypt(key, data, now) ==
    [t |-> "str", key |-> key, ts |-> now, data |-> data]

\* decrypt that takes no ttl
decrypt_no_ttl(token, ttl, now) ==
    IF "key" \in DOMAIN token /\ token.key = PAGE_TOKEN_KEY
    THEN [ok |-> TRUE, data |-> token.data]
    ELSE [ok |-> FALSE, data |-> [j |-> "null"]]

\* f.decrypt(token, ttl) at time now: InvalidToken for a text that is no
\* token, for a token older than ttl and for a token signed with another key
decrypt(token, ttl, now) ==
    IF "key" \in DOMAIN token /\ token.ts + ttl >= now
       /\ token.key = PAGE_TOKEN_KEY
    THEN [ok |-> TRUE, data |-> token.data]
    ELSE [ok |-> FALSE, data |-> [j |-> "null"]]

\* is_first that never holds
is_first_never(page_token) == FALSE

\* request.page_token == None
is_first(page_token) == page_token = PyNone

\* is_last that never holds
is_last_never(page_token) == FALSE

\* request.page_token == 'last'
is_last(page_token) == page_token = PyStr("last")

\* The outcome of process_page_token at time now: the exception raised (or
\* "None"), the value returned, and what the call made use of
process_page_token(request, path, now) ==
    IF is_first(request.page_token)
    THEN [raised |-> "None", detail |-> "", value |-> PyNone, used |-> {}]
    ELSE IF is_last(request.page_token)
    THEN [raised |-> "None", detail |-> "", value |-> LastPage, used |-> {}]
    ELSE LET raw_page_token ==
                 decrypt(request.page_token, PAGE_TOKEN_TTL, now)
             page_token == json_decode(raw_page_token.data)
         IN  IF ~raw_page_token.ok
             THEN [raised |-> "ClientException",
                   detail |-> INVALID_PAGE_TOKEN_MESSAGE,
                   value |-> PyNone, used |-> {"decrypt"}]
             ELSE IF ~page_token.ok
             THEN [raised |-> "ValidationError", detail |-> "",
                   value |-> PyNone, used |-> {"decrypt"}]
             ELSE IF hash_request_contents(request, path)
                        # page_token.request_hash
             THEN [raised |-> "ClientException",
                   detail |-> INVALID_PAGE_TOKEN_MESSAGE,
                   value |-> PyNone, used |-> {"decrypt", "hash"}]
             ELSE [raised |-> "None", detail |-> "",
                   value |-> page_token.bookmark,
                   used |-> {"decrypt", "hash"}]

\* _create_page_token at time now
_create_page_token(request, path, bookmark, now) ==
    LET page_token == [request_hash |-> hash_request_contents(request, path),
                       bookmark |-> bookmark]
    IN  fernet_encrypt(PAGE_TOKEN_KEY, json_encode(page_token), now)

\* create_page_tokens with the tests of the two directions exchanged
create_page_tokens_exchanged(request, path, page, now) ==
    << IF page.paging.has_next
       THEN _create_page_token(request, path,
                               page.paging.bookmark_previous, now)
       ELSE UNSET_TOKEN,
       IF page.paging.has_previous
       THEN _create_page_token(request, path, page.paging.bookmark_next, now)
       ELSE UNSET_TOKEN >>

\* The 2-tuple (prev_page_token, next_page_token)
create_page_tokens(request, path, page, now) ==
    << IF page.paging.has_previous
       THEN _create_page_token(request, path,
                               page.paging.bookmark_previous, now)
       ELSE UNSET_TOKEN,
       IF page.paging.has_next
       THEN _create_page_token(request, path, page.paging.bookmark_next, now)
       ELSE UNSET_TOKEN >>

\* process_page_size without the default for 0
process_page_size_no_default(max_page_size) ==
    Min(max_page_size, MAX_PAGE_SIZE)

process_page_size(max_page_size) ==
    IF max_page_size = 0 THEN DEFAULT_PAGE_SIZE
    ELSE Min(max_page_size, MAX_PAGE_SIZE)

-----------------------------------------------------------------------------
(* Request records *)

IdleReq ==
    [kind |-> "none", pc |-> "idle", novel_id |-> NoNovel, volume_id |-> 0,
     data_order |-> UNSET, titles |-> UNSET_TITLES, order |-> 0,
     old_order |-> 0, vo |-> [next_order |-> 0, ordering |-> << >>],
     rows |-> {}, ordw |-> {}, tdel |-> {}, tadd |-> {},
     writes |-> 0, moved |-> FALSE, indexed |-> FALSE, result |-> "",
     cause |-> "",
     pre_volume |-> {}, pre_vo |-> [next_order |-> 0, ordering |-> << >>],
     res |-> [volume_id |-> "", novel_id |-> "", volume_order |-> 0,
              titles |-> {}]]

\* No page token function has been called
InitCodec ==
    /\ clock = 0
    /\ held = PyNone
    /\ call = NoCall

Init ==
    /\ novel = SeedNovels
    /\ volume = {}
    /\ volume_ordering =
           [n \in SeedNovels |-> [next_order |-> 1, ordering |-> << >>]]
    /\ volume_title = {}
    /\ meili_index = {}
    /\ req = [r \in Reqs |-> IdleReq]
    /\ InitCodec

\* The request ends without commit: the transaction is rolled back
\* (provide_transaction leaves `async with db_session.begin()` by exception)
Raise(r, exception, cause) ==
    req' = [req EXCEPT ![r].pc = "done", ![r].result = exception,
                       ![r].cause = cause,
                       ![r].rows = {}, ![r].ordw = {},
                       ![r].tdel = {}, ![r].tadd = {}]

-----------------------------------------------------------------------------
(* Locks: a statement waits for the transactions it conflicts with *)

\* Uncommitted row versions written by the other transactions
OtherRows(r) == UNION {req[q].rows : q \in Reqs \ {r}}

\* The statement of r that rewrites `targets` into `newrows` has to wait:
\* a target row is locked by another transaction, or a new index entry
\* (novel_id, volume_order) meets an entry another transaction has written
\* or is about to remove
Blocked(r, targets, newrows) ==
    \/ Keys(targets) \cap Keys(OtherRows(r)) # {}
    \/ \E x \in newrows, y \in OtherRows(r) :
           /\ Key(x) # Key(y)
           /\ x.novel_id = y.novel_id
           /\ x.volume_order = y.volume_order
    \/ \E x \in newrows, y \in volume :
           /\ Key(y) \in Keys(OtherRows(r))
           /\ Key(x) # Key(y)
           /\ x.novel_id = y.novel_id
           /\ x.volume_order = y.volume_order

\* Another transaction holds the volume_ordering row of novel n
OrderingLocked(r, n) ==
    \E q \in Reqs \ {r} : \E w \in req[q].ordw : w.novel_id = n

\* One UPDATE of `volume` by request r: the rows `targets` get the orders of
\* `newrows`; the constraints are checked when the statement ends
ExecUpdate(r, targets, newrows, nextpc) ==
    /\ ~Blocked(r, targets, newrows)
    /\ IF UniqueOrder(ViewAfter(r, newrows)) /\ OrderLimit(newrows)
       THEN req' = [req EXCEPT ![r].rows = WriteRows(r, newrows),
                               ![r].writes = @ + 1,
                               ![r].pc = nextpc]
       ELSE req' = [req EXCEPT ![r].pc = "done",
                               ![r].result = "InternalServerException",
                               ![r].cause = "IntegrityError",
                               ![r].writes = @ + 1,
                               ![r].rows = {}, ![r].ordw = {},
                               ![r].tdel = {}, ![r].tadd = {}]
    /\ UNCHANGED <<novel, volume, volume_ordering, volume_title, meili_index,
                 codec>>

-----------------------------------------------------------------------------
(* POST /volumes *)

\* insert_order with the requested order taken as an index from 0
insert_order_from_zero(volume_order, next_order) ==
    IF volume_order = NONE \/ volume_order > next_order
    THEN next_order
    ELSE volume_order + 1

\* insert_order that clamps only an omitted order
insert_order_unclamped(volume_order, next_order) ==
    IF volume_order = NONE THEN next_order ELSE volume_order

\* The volume_order insert_volume assigns
insert_order(volume_order, next_order) ==
    IF volume_order = NONE \/ volume_order > next_order
    THEN next_order
    ELSE volume_order

\* max_volumes with the bound one too high
max_volumes_late(next_order) == next_order > VOLUME_ORDER_MAX + 1

\* The novel already has the maximum amount of volumes
max_volumes(next_order) == next_order > VOLUME_ORDER_MAX

\* The handler up to the call of insert_volume: validation and capacity.
\* get_next_order reads next_order of the row it selected; when there is no
\* row it reads an attribute of None, outside the handler's try
create_volume(r, novel_id, volume_order, titles) ==
    /\ req[r].pc \in {"idle", "done"}
    /\ LET start == [IdleReq EXCEPT !.kind = "create",
                                    !.novel_id = novel_id,
                                    !.data_order = volume_order,
                                    !.titles = titles,
                                    !.pre_volume = volume,
                                    !.pre_vo = IF novel_id \in DOMAIN volume_ordering
                                               THEN volume_ordering[novel_id]
                                               ELSE IdleReq.pre_vo]
       IN  IF find_repeated_lang_titles(titles) # "None"
           THEN req' = [req EXCEPT ![r] = [start EXCEPT
                            !.pc = "done", !.result = "ClientException",
                            !.cause = "repeated_lang"]]
           ELSE IF novel_id \notin novel
           THEN req' = [req EXCEPT ![r] = [start EXCEPT
                            !.pc = "done", !.result = "NotFoundException",
                            !.cause = "no_novel"]]
           ELSE IF novel_id \notin DOMAIN volume_ordering
           THEN req' = [req EXCEPT ![r] = [start EXCEPT
                            !.pc = "done", !.result = "AttributeError",
                            !.cause = "no_volume_ordering"]]
           ELSE IF max_volumes(volume_ordering[novel_id].next_order)
           THEN req' = [req EXCEPT ![r] = [start EXCEPT
                            !.vo = volume_ordering[novel_id],
                            !.pc = "done", !.result = "ClientException",
                            !.cause = "max_volumes"]]
           ELSE req' = [req EXCEPT ![r] = [start EXCEPT
                            !.vo = volume_ordering[novel_id],
                            !.pc = "insert_volume"]]
    /\ UNCHANGED <<novel, volume, volume_ordering, volume_title, meili_index,
                 codec>>

\* insert_volume up to its first write.  get_next_order returns the
\* VolumeOrdering object the session already holds (loaded by the handler)
insert_volume(r) ==
    /\ req[r].pc = "insert_volume"
    /\ LET next_order == req[r].vo.next_order
           volume_order == insert_order(req[r].data_order, next_order)
       IN  IF ~(next_order <= VOLUME_ORDER_MAX + 1)
           THEN Raise(r, "InternalServerException", "AssertionError")
           ELSE req' = [req EXCEPT
                    ![r].order = volume_order,
                    ![r].pc = IF volume_order < next_order
                              THEN "update_subsequent_orders"
                              ELSE "insert_volume_row"]
    /\ UNCHANGED <<novel, volume, volume_ordering, volume_title, meili_index,
                 codec>>

\* Rows update_subsequent_orders matches
subsequent_rows(rows, novel_id, order_to_insert) ==
    {x \in rows : x.novel_id = novel_id /\ x.volume_order >= order_to_insert}

update_subsequent_orders(r) ==
    /\ req[r].pc = "update_subsequent_orders"
    /\ LET targets == subsequent_rows(VisibleVolume(r), req[r].novel_id,
                                      req[r].order)
           newrows == {[x EXCEPT !.volume_order = @ + 1] : x \in targets}
       IN  ExecUpdate(r, targets, newrows, "insert_volume_row")

\* The value the identity column generates next: above every value it has
\* generated for a row that exists or is being inserted
identity_values ==
    {id \in VolumeIds :
        \A x \in volume \cup UNION {req[q].rows : q \in Reqs} :
            x.volume_id < id}

next_identity ==
    {id \in identity_values : \A other \in identity_values : id <= other}

\* INSERT INTO volume ... RETURNING *; volume_id is generated by the database
insert_volume_row(r) ==
    /\ req[r].pc = "insert_volume_row"
    /\ \E id \in next_identity :
        /\ LET row == [volume_id |-> id, novel_id |-> req[r].novel_id,
                       volume_order |-> req[r].order]
           IN  /\ ~Blocked(r, {}, {row})
               /\ IF UniqueOrder(ViewAfter(r, {row})) /\ OrderLimit({row})
                  THEN req' = [req EXCEPT ![r].rows = WriteRows(r, {row}),
                                          ![r].volume_id = id,
                                          ![r].writes = @ + 1,
                                          ![r].pc = "insert_into_ordering"]
                  ELSE req' = [req EXCEPT ![r].pc = "done",
                                  ![r].result = "InternalServerException",
                                  ![r].cause = "IntegrityError",
                                  ![r].writes = @ + 1,
                                  ![r].rows = {}, ![r].ordw = {},
                                  ![r].tdel = {}, ![r].tadd = {}]
    /\ UNCHANGED <<novel, volume, volume_ordering, volume_title, meili_index,
                 codec>>

\* The session's VolumeOrdering object is changed and flushed
\* next_order left as it was
next_order_kept(next_order) == next_order

\* volume_ordering.next_order += 1
next_order_incremented(next_order) == next_order + 1

insert_into_ordering(r) ==
    /\ req[r].pc = "insert_into_ordering"
    /\ ~OrderingLocked(r, req[r].novel_id)
    /\ LET vo == [next_order |-> next_order_incremented(req[r].vo.next_order),
                  ordering |-> ListInsert(req[r].vo.ordering,
                                          req[r].order - 1, req[r].volume_id)]
       IN  IF OrderingLimit(vo)
           THEN req' = [req EXCEPT
                    ![r].vo = vo,
                    ![r].ordw = {[novel_id |-> req[r].novel_id,
                                  next_order |-> vo.next_order,
                                  ordering |-> vo.ordering]},
                    ![r].writes = @ + 1,
                    ![r].pc = "upsert_volume_titles"]
           ELSE req' = [req EXCEPT ![r].pc = "done",
                            ![r].result = "InternalServerException",
                            ![r].cause = "IntegrityError",
                            ![r].writes = @ + 1,
                            ![r].rows = {}, ![r].ordw = {},
                            ![r].tdel = {}, ![r].tadd = {}]
    /\ UNCHANGED <<novel, volume, volume_ordering, volume_title, meili_index,
                 codec>>

\* INSERT INTO volume_title ... ON CONFLICT DO UPDATE
upsert_volume_titles(r) ==
    /\ req[r].pc = "upsert_volume_titles"
    /\ req' = [req EXCEPT
           ![r].tadd = @ \cup {[volume_id |-> req[r].volume_id,
                                novel_id |-> req[r].novel_id,
                                lang |-> req[r].titles[i]]
                               : i \in 1..Len(req[r].titles)},
           ![r].writes = @ + 1,
           ![r].pc = "meili"]
    /\ UNCHANGED <<novel, volume, volume_ordering, volume_title, meili_index,
                 codec>>

-----------------------------------------------------------------------------
(* PATCH /volumes/{volume_id} *)

\* select_volume: the rows with this (novel_id, volume_id)
select_volume(rows, novel_id, volume_id) ==
    {x \in rows : x.novel_id = novel_id /\ x.volume_id = volume_id}

\* Where the caller of update_volume goes on: the handler replaces the
\* titles if the body has some and then writes the search index
after_update(kind, titles) ==
    IF kind # "patch" THEN "commit"
    ELSE IF titles # UNSET_TITLES THEN "clear_volume_titles"
    ELSE "meili"

\* The handler's test for calling update_volume
order_changes(data_order, current_order) ==
    data_order # UNSET /\ data_order # current_order

\* The handler up to the call of update_volume: lookup, validation, and the
\* test that decides whether update_volume is called
patch_volume(r, novel_id, volume_id, volume_order, titles) ==
    /\ req[r].pc \in {"idle", "done"}
    /\ LET start == [IdleReq EXCEPT !.kind = "patch",
                         !.novel_id = novel_id,
                         !.volume_id = volume_id,
                         !.data_order = volume_order,
                         !.titles = titles,
                         !.pre_volume = volume,
                         !.pre_vo = IF novel_id \in DOMAIN volume_ordering
                                    THEN volume_ordering[novel_id]
                                    ELSE IdleReq.pre_vo]
           found == select_volume(volume, novel_id, volume_id)
       IN  IF found = {}
           THEN req' = [req EXCEPT ![r] = [start EXCEPT
                            !.pc = "done", !.result = "NotFoundException",
                            !.cause = "no_volume"]]
           ELSE IF titles # UNSET_TITLES
                   /\ find_repeated_lang_titles(titles) # "None"
           THEN req' = [req EXCEPT ![r] = [start EXCEPT
                            !.pc = "done", !.result = "ClientException",
                            !.cause = "repeated_lang"]]
           ELSE LET v == CHOOSE x \in found : TRUE
                IN  req' = [req EXCEPT ![r] = [start EXCEPT
                        !.old_order = v.volume_order,
                        !.order = v.volume_order,
                        !.pc = IF order_changes(volume_order, v.volume_order)
                               THEN "update_volume"
                               ELSE after_update("patch", titles)]]
    /\ UNCHANGED <<novel, volume, volume_ordering, volume_title, meili_index,
                 codec>>

\* update_order without the clamp
update_order_unclamped(volume_order, next_order) == volume_order

\* The volume_order update_volume assigns
update_order(volume_order, next_order) ==
    IF volume_order > next_order THEN next_order ELSE volume_order

\* same_order without the early return
same_order_never(old_volume_order, volume_order) == FALSE

\* update_volume returns at once
same_order(old_volume_order, volume_order) == old_volume_order = volume_order

\* update_volume up to its first write
update_volume(r) ==
    /\ req[r].pc = "update_volume"
    /\ IF same_order(req[r].old_order, req[r].data_order)
       THEN req' = [req EXCEPT ![r].moved = TRUE,
                               ![r].pc = after_update(req[r].kind,
                                                      req[r].titles)]
       ELSE LET vo == volume_ordering[req[r].novel_id]
            IN  IF req[r].data_order = NONE
                   \/ ~(vo.next_order <= VOLUME_ORDER_MAX + 1)
                THEN req' = [req EXCEPT ![r].pc = "done",
                                 ![r].moved = TRUE,
                                 ![r].result = "InternalServerException",
                                 ![r].cause = IF req[r].data_order = NONE
                                              THEN "TypeError"
                                              ELSE "AssertionError"]
                ELSE req' = [req EXCEPT
                         ![r].vo = vo,
                         ![r].moved = TRUE,
                         ![r].order = update_order(req[r].data_order,
                                                   vo.next_order),
                         ![r].pc = "update_volume_shift"]
    /\ UNCHANGED <<novel, volume, volume_ordering, volume_title, meili_index,
                 codec>>

\* Rows the shift statement of update_volume matches, and the change it makes
shift_rows(rows, novel_id, old_volume_order, volume_order) ==
    IF volume_order < old_volume_order
    THEN {x \in rows : /\ x.novel_id = novel_id
                       /\ x.volume_order >= volume_order
                       /\ x.volume_order < old_volume_order}
    ELSE {x \in rows : /\ x.novel_id = novel_id
                       /\ x.volume_order > old_volume_order
                       /\ x.volume_order <= volume_order}

shift_delta(old_volume_order, volume_order) ==
    IF volume_order < old_volume_order THEN 1 ELSE -1

update_volume_shift(r) ==
    /\ req[r].pc = "update_volume_shift"
    /\ LET targets == shift_rows(VisibleVolume(r), req[r].novel_id,
                                 req[r].old_order, req[r].order)
           d == shift_delta(req[r].old_order, req[r].order)
           newrows == {[x EXCEPT !.volume_order = @ + d] : x \in targets}
       IN  ExecUpdate(r, targets, newrows, "update_volume_set")

\* Rows the final UPDATE of update_volume matches
set_rows(rows, volume_id) == {x \in rows : x.volume_id = volume_id}

update_volume_set(r) ==
    /\ req[r].pc = "update_volume_set"
    /\ LET targets == set_rows(VisibleVolume(r), req[r].volume_id)
           newrows == {[x EXCEPT !.volume_order = req[r].order] : x \in targets}
       IN  ExecUpdate(r, targets, newrows,
                      after_update(req[r].kind, req[r].titles))

\* DELETE FROM volume_title WHERE volume_id = :volume_id
clear_volume_titles(r) ==
    /\ req[r].pc = "clear_volume_titles"
    /\ req' = [req EXCEPT
           ![r].tdel = @ \cup {req[r].volume_id},
           ![r].tadd = {t \in @ : t.volume_id # req[r].volume_id},
           ![r].writes = @ + 1,
           ![r].pc = "upsert_volume_titles"]
    /\ UNCHANGED <<novel, volume, volume_ordering, volume_title, meili_index,
                 codec>>

\* update_volume called on its own, in a transaction of the caller, for a
\* volume of the novel and its current order
call_update_volume(r, novel_id, volume_id, volume_order) ==
    /\ req[r].pc \in {"idle", "done"}
    /\ \E v \in select_volume(volume, novel_id, volume_id) :
           req' = [req EXCEPT ![r] = [IdleReq EXCEPT
                       !.kind = "move",
                       !.novel_id = novel_id,
                       !.volume_id = volume_id,
                       !.data_order = volume_order,
                       !.old_order = v.volume_order,
                       !.order = v.volume_order,
                       !.pre_volume = volume,
                       !.pre_vo = volume_ordering[novel_id],
                       !.pc = "update_volume"]]
    /\ UNCHANGED <<novel, volume, volume_ordering, volume_title, meili_index,
                 codec>>

-----------------------------------------------------------------------------
(* Search index, commit, failures *)

\* f'{volume.novel_id}-{volume.volume_id}'
create_api_volume_id(row) ==
    ToString(row.novel_id) \o "-" \o ToString(row.volume_id)

\* re.fullmatch(r'^\d+-\d+$', text): digits, one hyphen, digits
Digits == {"0", "1", "2", "3", "4", "5", "6", "7", "8", "9"}
Hyphens(text) == {i \in 1..Len(text) : SubSeq(text, i, i) = "-"}
fullmatch_volume_id(text) ==
    /\ Cardinality(Hyphens(text)) = 1
    /\ \A i \in Hyphens(text) : i > 1 /\ i < Len(text)
    /\ \A i \in (1..Len(text)) \ Hyphens(text) :
           SubSeq(text, i, i) \in Digits

\* tuple(volume_id.split('-')) of a text that matches VOLUME_ID_PATTERN
parse_api_volume_id(volume_id) ==
    IF ~fullmatch_volume_id(volume_id)
    THEN <<"AssertionError">>
    ELSE LET i == CHOOSE i \in Hyphens(volume_id) : TRUE
         IN  <<SubSeq(volume_id, 1, i - 1),
               SubSeq(volume_id, i + 1, Len(volume_id))>>

\* The VolumeSchema of a volume; titles by their languages
to_volume_schema(row, titles) ==
    [volume_id |-> create_api_volume_id(row),
     novel_id |-> ToString(row.volume_id),
     volume_order |-> row.volume_order,
     titles |-> titles]

\* Languages of the titles of a volume, as request r sees them
volume_titles(r, v) ==
    {t.lang : t \in {u \in VisibleTitle(r) : /\ u.volume_id = v.volume_id
                                             /\ u.novel_id = v.novel_id}}

\* A document of the search index, by its two ids
document(res) == [volume_id |-> res.volume_id, novel_id |-> res.novel_id]

\* res = to_volume_schema(volume, titles), then meili_index.add_documents /
\* update_documents([res]), inside the handler; a document replaces the one
\* with its volume_id
meili_write(r) ==
    /\ req[r].pc = "meili"
    /\ \E v \in select_volume(VisibleVolume(r), req[r].novel_id,
                               req[r].volume_id) :
           LET res == to_volume_schema(v, volume_titles(r, v))
           IN  /\ meili_index' =
                      {d \in meili_index : d.volume_id # res.volume_id}
                      \cup {document(res)}
               /\ req' = [req EXCEPT ![r].indexed = TRUE, ![r].res = res,
                                     ![r].pc = "commit"]
    /\ UNCHANGED <<novel, volume, volume_ordering, volume_title, codec>>

\* meili_fails with the error swallowed: the handler goes on to the commit
meili_fails_swallowed(r) ==
    /\ req[r].pc = "meili"
    /\ req' = [req EXCEPT ![r].cause = "MeilisearchError", ![r].pc = "commit"]
    /\ UNCHANGED <<novel, volume, volume_ordering, volume_title, meili_index,
                 codec>>

\* The search index call raises: the handler raises InternalServerException
meili_fails(r) ==
    /\ req[r].pc = "meili"
    /\ Raise(r, "InternalServerException", "MeilisearchError")
    /\ UNCHANGED <<novel, volume, volume_ordering, volume_title, meili_index,
                 codec>>

\* The transaction commits: transaction.commit() in patch_volume, the exit
\* of `async with db_session.begin()` after create_volume returns
commit(r) ==
    /\ req[r].pc = "commit"
    /\ volume' = VisibleVolume(r)
    /\ volume_ordering' =
           [n \in DOMAIN volume_ordering |->
               IF \E w \in req[r].ordw : w.novel_id = n
               THEN LET w == CHOOSE w \in req[r].ordw : w.novel_id = n
                    IN  [next_order |-> w.next_order, ordering |-> w.ordering]
               ELSE volume_ordering[n]]
    /\ volume_title' = VisibleTitle(r)
    /\ req' = [req EXCEPT ![r].pc = "done", ![r].result = "ok",
                          ![r].rows = {}, ![r].ordw = {},
                          ![r].tdel = {}, ![r].tadd = {}]
    /\ UNCHANGED <<novel, meili_index, codec>>

\* Positions at which the next step is a statement sent to the database
StatementPcs ==
    {"update_subsequent_orders", "insert_volume_row", "insert_into_ordering",
     "upsert_volume_titles", "update_volume_shift", "update_volume_set",
     "clear_volume_titles", "commit"}

\* statement_fails outside a transaction: what was written stays
statement_fails_autocommit(r) ==
    /\ req[r].pc \in StatementPcs
    /\ volume' = VisibleVolume(r)
    /\ Raise(r, "InternalServerException", "StorageError")
    /\ UNCHANGED <<novel, volume_ordering, volume_title, meili_index, codec>>

\* The database reports an error for the statement (connection lost,
\* deadlock, ...): the exception leaves the handler and the transaction
statement_fails(r) ==
    /\ req[r].pc \in StatementPcs
    /\ Raise(r, "InternalServerException", "StorageError")
    /\ UNCHANGED <<novel, volume, volume_ordering, volume_title, meili_index,
                 codec>>

-----------------------------------------------------------------------------
(* POST /novels *)

\* The value the identity column novel_id generates next
next_novel_id ==
    {id \in NovelIds : /\ id \notin novel
                       /\ \A n \in novel : n < id
                       /\ \A other \in NovelIds :
                              (\A n \in novel : n < other) => id <= other}

\* The whole request: validation, insert_novel, upsert_novel_titles, the
\* search index write and the commit.  insert_initial_volume_ordering is not
\* called: no row of volume_ordering is written.  A failure inside the try
\* block ends the request with nothing committed
create_novel(r, titles) ==
    /\ req[r].pc \in {"idle", "done"}
    /\ LET start == [IdleReq EXCEPT !.kind = "create_novel",
                                    !.titles = titles,
                                    !.pre_volume = volume,
                                    !.pc = "done"]
       IN  IF find_repeated_lang_titles(titles) # "None"
           THEN /\ req' = [req EXCEPT ![r] = [start EXCEPT
                               !.result = "ClientException",
                               !.cause = "repeated_lang"]]
                /\ UNCHANGED novel
           ELSE \E id \in next_novel_id :
                   \/ /\ novel' = novel \cup {id}
                      /\ req' = [req EXCEPT ![r] = [start EXCEPT
                                     !.novel_id = id, !.writes = 2,
                                     !.indexed = TRUE, !.result = "ok"]]
                   \/ /\ UNCHANGED novel
                      /\ req' = [req EXCEPT ![r] = [start EXCEPT
                                     !.writes = 1,
                                     !.result = "InternalServerException",
                                     !.cause = "StorageError"]]
    /\ UNCHANGED <<volume, volume_ordering, volume_title, meili_index, codec>>

-----------------------------------------------------------------------------
(* Calls of the page token functions, as query_web_novels makes them *)

\* The tables and the requests, which the page token functions do not touch
tables == <<novel, volume, volume_ordering, volume_title, meili_index, req>>

\* Values of request.filter and of the path of a route handler
Filters == {"x", "y"}
Paths == {"/web-novels", "/volumes"}
\* Bookmarks sqlakeyset gives for the two ends of a page
Bookmarks == {PyStr("<i:1"), PyStr(">i:2")}
\* What select_page returns, as far as create_page_tokens reads it
Pages ==
    {[paging |-> [has_previous |-> hp, has_next |-> hn,
                  bookmark_previous |-> PyStr("<i:1"),
                  bookmark_next |-> PyStr(">i:2")]] : hp, hn \in BOOLEAN}
\* Texts a client may send as page_token that no response gave it
TokenTexts == {"last", "", "gAAAAA"}
\* Values of max_page_size
PageSizeInputs == {0, 1, DEFAULT_PAGE_SIZE, MAX_PAGE_SIZE - 1, MAX_PAGE_SIZE,
                   MAX_PAGE_SIZE + 1}

\* The values of request.page_token a client can send: none, a text of its
\* own, the token it keeps from a response, or that token's content signed
\* with a key of its own
TokenInputs ==
    {PyNone} \cup {PyStr(s) : s \in TokenTexts} \cup {held}
    \cup (IF "key" \in DOMAIN held
          THEN {fernet_encrypt(OtherKey, held.data, held.ts)}
          ELSE {})

\* A second passes
tick ==
    /\ clock < MaxClock
    /\ clock' = clock + 1
    /\ UNCHANGED <<held, call, tables>>

call_process_page_token(request, path) ==
    /\ call' = [fn |-> "process_page_token", request |-> request,
                path |-> path, at |-> clock,
                out |-> process_page_token(request, path, clock)]
    /\ UNCHANGED <<clock, held, tables>>

\* The response carries the tokens; the client keeps one of them or the one
\* it has
call_create_page_tokens(request, path, page) ==
    LET out == create_page_tokens(request, path, page, clock)
    IN  /\ call' = [fn |-> "create_page_tokens", request |-> request,
                    path |-> path, page |-> page, at |-> clock, out |-> out]
        /\ \E keep \in {held} \cup ({out[1], out[2]} \ {UNSET_TOKEN}) :
               held' = keep
        /\ UNCHANGED <<clock, tables>>

call_process_page_size(max_page_size) ==
    /\ call' = [fn |-> "process_page_size", max_page_size |-> max_page_size,
                out |-> process_page_size(max_page_size)]
    /\ UNCHANGED <<clock, held, tables>>

-----------------------------------------------------------------------------
(* Specifications *)

OrderInputs == {NONE} \cup (1..VOLUME_ORDER_MAX)

\* Requests served one at a time, all for novel 1; a create request may
\* also name an unknown novel
SeqNovels == {1, NoNovel}

Next ==
    \/ \E n \in SeqNovels, o \in OrderInputs, t \in TitleInputs :
           create_volume(1, n, o, t)
    \/ insert_volume(1)
    \/ update_subsequent_orders(1)
    \/ insert_volume_row(1)
    \/ insert_into_ordering(1)
    \/ upsert_volume_titles(1)
    \/ \E v \in VolumeIds, o \in OrderInputs \cup {UNSET},
          t \in TitleInputs \cup {UNSET_TITLES} :
           patch_volume(1, 1, v, o, t)
    \/ update_volume(1)
    \/ update_volume_shift(1)
    \/ update_volume_set(1)
    \/ clear_volume_titles(1)
    \/ meili_write(1)
    \/ meili_fails(1)
    \/ commit(1)
    \/ statement_fails(1)

Spec == Init /\ [][Next]_vars

\* The same, and update_volume also called on its own
NextEngine ==
    \/ Next
    \/ \E v \in VolumeIds, o \in 1..VOLUME_ORDER_MAX :
           call_update_volume(1, 1, v, o)

SpecEngine == Init /\ [][NextEngine]_vars

\* Novel 1 with k volumes created one after the other
InitConc ==
    \E k \in 0..VOLUME_ORDER_MAX :
        /\ volume = {[volume_id |-> i, novel_id |-> 1, volume_order |-> i]
                        : i \in 1..k}
        /\ novel = SeedNovels
        /\ volume_ordering =
               [n \in SeedNovels |->
                   IF n = 1
                   THEN [next_order |-> k + 1, ordering |-> [i \in 1..k |-> i]]
                   ELSE [next_order |-> 1, ordering |-> << >>]]
        /\ volume_title = {[volume_id |-> i, novel_id |-> 1, lang |-> "en"]
                              : i \in 1..k}
        /\ meili_index =
               {document(to_volume_schema([volume_id |-> i, novel_id |-> 1,
                                           volume_order |-> i], {"en"}))
                   : i \in 1..k}
        /\ req = [r \in Reqs |-> IdleReq]
        /\ InitCodec

\* Two requests at a time, one per slot, both for novel 1
NextConc ==
    \E r \in Reqs :
        \/ \E o \in OrderInputs :
               req[r].pc = "idle" /\ create_volume(r, 1, o, <<"en">>)
        \/ insert_volume(r)
        \/ update_subsequent_orders(r)
        \/ insert_volume_row(r)
        \/ insert_into_ordering(r)
        \/ upsert_volume_titles(r)
        \/ \E v \in VolumeIds, o \in 1..VOLUME_ORDER_MAX :
               req[r].pc = "idle" /\ patch_volume(r, 1, v, o, UNSET_TITLES)
        \/ update_volume(r)
        \/ update_volume_shift(r)
        \/ update_volume_set(r)
        \/ meili_write(r)
        \/ meili_fails(r)
        \/ commit(r)
        \/ statement_fails(r)

SpecConc == InitConc /\ [][NextConc]_vars

\* Novels are created, and volumes are created for novel 1 and for the
\* novels created
NextNovel ==
    \/ \E t \in TitleInputs : create_novel(1, t)
    \/ \E n \in {1} \cup (NovelIds \ SeedNovels), o \in OrderInputs :
           create_volume(1, n, o, <<"en">>)
    \/ insert_volume(1)
    \/ update_subsequent_orders(1)
    \/ insert_volume_row(1)
    \/ insert_into_ordering(1)
    \/ upsert_volume_titles(1)
    \/ meili_write(1)
    \/ meili_fails(1)
    \/ commit(1)
    \/ statement_fails(1)

SpecNovel == Init /\ [][NextNovel]_vars

\* The page token functions called with every request, path and page, as
\* time passes
NextPage ==
    \/ tick
    \/ \E f \in Filters, tok \in TokenInputs, p \in Paths :
           call_process_page_token([filter |-> f, page_token |-> tok], p)
    \/ \E f \in Filters, p \in Paths, page \in Pages :
           call_create_page_tokens([filter |-> f, page_token |-> PyNone], p,
                                   page)
    \/ \E n \in PageSizeInputs : call_process_page_size(n)

SpecPage == Init /\ [][NextPage]_vars

-----------------------------------------------------------------------------
(* Properties *)

Children(rows, n) == {x \in rows : x.novel_id = n}
Ranks(rows, n) == {x.volume_order : x \in Children(rows, n)}
Count(rows, n) == Cardinality(Children(rows, n))
Dense(rows, n) == Ranks(rows, n) = 1..Count(rows, n)

InProgress(r) == req[r].pc \notin {"idle", "done"}

\* The committed rows and ordering record of the request's novel are what
\* they were when the request began
Untouched(r) ==
    /\ volume = req[r].pre_volume
    /\ req[r].novel_id \in DOMAIN volume_ordering =>
           volume_ordering[req[r].novel_id] = req[r].pre_vo

\* The request failed for a reason outside the ordering code
OutsideFailure(r) == req[r].cause \in {"StorageError", "MeilisearchError"}

\* C1: the ranks of the volumes of a novel are exactly 1..count
C1_DenseRanks == \A n \in novel : Dense(volume, n)

\* C2: an insert at rank r below next_order into a novel with ranks 1..k
\* gives the new volume rank r, adds 1 to every rank >= r and keeps the
\* ranks < r
C2_InsertWithShift ==
    \A r \in Reqs :
        LET q == req[r]
            before == Children(q.pre_volume, q.novel_id)
        IN  ( /\ q.kind = "create" /\ q.pc = "done" /\ q.result = "ok"
              /\ Dense(q.pre_volume, q.novel_id)
              /\ q.pre_vo.next_order = Cardinality(before) + 1
              /\ q.data_order >= 1
              /\ q.data_order < q.pre_vo.next_order )
            => /\ [volume_id |-> q.volume_id, novel_id |-> q.novel_id,
                   volume_order |-> q.data_order] \in volume
               /\ <<q.volume_id, q.novel_id>> \notin Keys(q.pre_volume)
               /\ \A x \in before :
                      [x EXCEPT !.volume_order =
                            IF @ >= q.data_order THEN @ + 1 ELSE @] \in volume
               /\ Count(volume, q.novel_id) = Cardinality(before) + 1

C2_Witness ==
    \E r \in Reqs :
        LET q == req[r]
            before == Children(q.pre_volume, q.novel_id)
        IN  /\ q.kind = "create" /\ q.pc = "done" /\ q.result = "ok"
            /\ Dense(q.pre_volume, q.novel_id)
            /\ q.pre_vo.next_order = Cardinality(before) + 1
            /\ q.data_order >= 1
            /\ q.data_order < q.pre_vo.next_order
            /\ \E x \in before : x.volume_order >= q.data_order
            /\ \E x \in before : x.volume_order < q.data_order

\* The state a move of the volume at rank old to rank new has to leave
MovedAsClaimed(q, old, new) ==
    /\ \E x \in volume : /\ Key(x) = <<q.volume_id, q.novel_id>>
                         /\ x.volume_order = new
    /\ \A x \in Children(q.pre_volume, q.novel_id) :
           x.volume_id # q.volume_id =>
               [x EXCEPT !.volume_order =
                     IF new < old /\ @ >= new /\ @ < old THEN @ + 1
                     ELSE IF new > old /\ @ > old /\ @ <= new THEN @ - 1
                     ELSE @] \in volume
    /\ Count(volume, q.novel_id) = Count(q.pre_volume, q.novel_id)

\* C3: a move to an earlier rank, of a volume of a novel with ranks
\* 1..count, succeeds and leaves the moved volume at the new rank, the
\* volumes that were in [new, old) one rank later and the others unchanged
\* ([a, b, c], moving b to 1, gives [b, a, c])
C3_MoveEarlier ==
    \A r \in Reqs :
        LET q == req[r]
        IN  ( /\ q.kind = "patch" /\ q.pc = "done" /\ q.moved
              /\ ~OutsideFailure(r)
              /\ Dense(q.pre_volume, q.novel_id)
              /\ q.data_order >= 1
              /\ q.data_order < q.old_order )
            => /\ q.result = "ok"
               /\ MovedAsClaimed(q, q.old_order, q.data_order)

\* C4: a move to a later rank new <= count, of a volume of a novel with
\* ranks 1..count, succeeds and leaves the moved volume at the new rank, the
\* volumes that were in (old, new] one rank earlier and the others unchanged
\* ([a, b, c], moving b to 3, gives [a, c, b])
C4_MoveLater ==
    \A r \in Reqs :
        LET q == req[r]
        IN  ( /\ q.kind = "patch" /\ q.pc = "done" /\ q.moved
              /\ ~OutsideFailure(r)
              /\ Dense(q.pre_volume, q.novel_id)
              /\ q.data_order > q.old_order
              /\ q.data_order <= Count(q.pre_volume, q.novel_id) )
            => /\ q.result = "ok"
               /\ MovedAsClaimed(q, q.old_order, q.data_order)

\* C5: update_volume called with equal orders issues no statement and
\* changes no row, and an update request whose volume_order is omitted or
\* is the volume's current order does not call update_volume
C5_EqualOrderNoop ==
    \A r \in Reqs :
        LET q == req[r]
        IN  /\ ( /\ q.kind = "move" /\ q.data_order = q.old_order
                 /\ q.pc # "update_volume" )
               => /\ q.writes = 0
                  /\ q.rows = {} /\ q.ordw = {}
                  /\ Untouched(r)
            /\ ( /\ q.kind = "patch"
                 /\ (q.data_order = UNSET \/ q.data_order = q.old_order) )
               => ~q.moved

C5_Witness ==
    \E r \in Reqs :
        /\ req[r].kind = "move" /\ req[r].data_order = req[r].old_order
        /\ req[r].moved /\ req[r].pc = "done" /\ req[r].result = "ok"

\* C6: a create request for a novel that has VOLUME_ORDER_MAX volumes
\* fails with the maximum-amount client error and changes nothing
C6_CapacityBound ==
    \A r \in Reqs :
        LET q == req[r]
        IN  ( /\ q.kind = "create" /\ q.novel_id \in novel
              /\ find_repeated_lang_titles(q.titles) = "None"
              /\ Count(q.pre_volume, q.novel_id) = VOLUME_ORDER_MAX
              /\ q.pre_vo.next_order = VOLUME_ORDER_MAX + 1 )
            => /\ q.pc = "done"
               /\ q.result = "ClientException" /\ q.cause = "max_volumes"
               /\ q.writes = 0
               /\ Untouched(r)

C6_Witness ==
    \E r \in Reqs :
        /\ req[r].kind = "create" /\ req[r].novel_id \in novel
        /\ Count(req[r].pre_volume, req[r].novel_id) = VOLUME_ORDER_MAX
        /\ req[r].pre_vo.next_order = VOLUME_ORDER_MAX + 1
        /\ req[r].data_order \in 1..VOLUME_ORDER_MAX
        /\ req[r].cause = "max_volumes"

\* C7: nothing of a request is committed before its commit, and a request
\* that fails leaves the committed rows and ordering record as they were
C7_Atomic ==
    \A r \in Reqs :
        (InProgress(r) \/ (req[r].pc = "done" /\ req[r].result # "ok"))
            => Untouched(r)

C7_Witness ==
    \E r \in Reqs :
        /\ req[r].kind = "create" /\ req[r].pc = "done"
        /\ req[r].result = "InternalServerException"
        /\ req[r].cause = "StorageError"
        /\ req[r].writes >= 2

\* A rank change was staged by the request when the search index was called
RankChange(q) == q.kind = "create" \/ (q.kind = "patch" /\ q.moved)

C9_Serialized ==
    \A a, b \in Reqs :
        (a # b /\ InProgress(a) /\ InProgress(b))
            => req[a].novel_id # req[b].novel_id

\* C10: the ordering list of a novel whose ranks are 1..count has length
\* count and its i-th element is the id of the volume of rank i
C10_OrderingMirrorsRanks ==
    \A n \in novel :
        Dense(volume, n) =>
            /\ Len(volume_ordering[n].ordering) = Count(volume, n)
            /\ \A x \in Children(volume, n) :
                   volume_ordering[n].ordering[x.volume_order] = x.volume_id

\* C11: every novel in the novel table has its volume_ordering record, and
\* reading next_order of a novel that has no record fails with the
\* not-found error
C11_OrderingRecordLifecycle ==
    /\ \A n \in novel : n \in DOMAIN volume_ordering
    /\ \A r \in Reqs :
           (req[r].kind = "create" /\ req[r].novel_id \in novel
               /\ req[r].novel_id \notin DOMAIN volume_ordering
               /\ req[r].pc = "done")
           => req[r].result = "NotFoundException"

\* The page token was made by _create_page_token for (f, p, B) at time ts
MadeFor(tok, f, p, B, ts) ==
    tok = _create_page_token([filter |-> f, page_token |-> PyNone], p, B, ts)

Accepted(out) == out.raised = "None"
InvalidPageToken(out) ==
    out.raised = "ClientException" /\ out.detail = INVALID_PAGE_TOKEN_MESSAGE

\* C12: a token made for (f, p, B) and not older than the TTL decodes to B
\* under the same filter and path, and is refused as an invalid page token
\* under any other filter or any other path
C12_TokenRoundTrip ==
    call.fn = "process_page_token" =>
        \A f \in Filters, p \in Paths, B \in Bookmarks, ts \in 0..call.at :
            ( /\ MadeFor(call.request.page_token, f, p, B, ts)
              /\ call.at - ts <= PAGE_TOKEN_TTL )
            => IF f = call.request.filter /\ p = call.path
               THEN Accepted(call.out) /\ call.out.value = B
               ELSE InvalidPageToken(call.out)

C12_Witness ==
    /\ call.fn = "process_page_token"
    /\ \E f \in Filters, p \in Paths, B \in Bookmarks, ts \in 0..call.at :
           /\ MadeFor(call.request.page_token, f, p, B, ts)
           /\ ts < call.at
           /\ call.at - ts <= PAGE_TOKEN_TTL
           /\ f = call.request.filter /\ p = call.path
           /\ call.out.value = B

\* C13: the page token 'last' gives the tuple (None, True), for every filter
\* and path and at every time, with no exception raised and with neither
\* the decryption (and its TTL) nor the request hash made use of
C13_LastSentinel ==
    (call.fn = "process_page_token"
        /\ call.request.page_token = PyStr("last"))
    => /\ Accepted(call.out)
       /\ call.out.value = LastPage
       /\ call.out.value.place = PyNone /\ call.out.value.backwards
       /\ call.out.used = {}

C13_Witness ==
    /\ call.fn = "process_page_token"
    /\ call.request.page_token = PyStr("last")
    /\ call.at > PAGE_TOKEN_TTL
    /\ call.out.value = LastPage

\* C14: the previous-page token is there exactly if the page has a previous
\* page and the next-page token exactly if it has a next page; a token that
\* is there is the token made for the page's bookmark of that direction and
\* decodes to it; a page with neither gives no token
C14_DirectionalTokens ==
    call.fn = "create_page_tokens" =>
        LET paging == call.page.paging
            prev == call.out[1]
            next == call.out[2]
            decoded(tok) ==
                process_page_token([filter |-> call.request.filter,
                                    page_token |-> tok], call.path, call.at)
        IN  /\ (prev # UNSET_TOKEN) <=> paging.has_previous
            /\ (next # UNSET_TOKEN) <=> paging.has_next
            /\ paging.has_previous =>
                   /\ MadeFor(prev, call.request.filter, call.path,
                              paging.bookmark_previous, call.at)
                   /\ decoded(prev).value = paging.bookmark_previous
            /\ paging.has_next =>
                   /\ MadeFor(next, call.request.filter, call.path,
                              paging.bookmark_next, call.at)
                   /\ decoded(next).value = paging.bookmark_next
            /\ (~paging.has_previous /\ ~paging.has_next) =>
                   call.out = <<UNSET_TOKEN, UNSET_TOKEN>>

C14_Witness ==
    /\ call.fn = "create_page_tokens"
    /\ call.page.paging.has_previous /\ ~call.page.paging.has_next
    /\ call.out[1] # UNSET_TOKEN /\ call.out[2] = UNSET_TOKEN

\* The page token is one that _create_page_token gave at or before `now`
ProducedByEncode(tok, now) ==
    \E f \in Filters, p \in Paths, B \in Bookmarks, ts \in 0..now :
        MadeFor(tok, f, p, B, ts)

\* C15: a page token other than none and 'last' is refused as an invalid
\* page token if _create_page_token with the server's key did not make it or
\* if it is older than the TTL; a token that was accepted is refused at
\* every later time at which it is older than the TTL
C15_TokenRejection ==
    (call.fn = "process_page_token"
        /\ call.request.page_token \notin {PyNone, PyStr("last")})
    => LET tok == call.request.page_token
       IN  /\ ~ProducedByEncode(tok, call.at) => InvalidPageToken(call.out)
           /\ (ProducedByEncode(tok, call.at)
                  /\ call.at - tok.ts > PAGE_TOKEN_TTL)
              => InvalidPageToken(call.out)
           /\ Accepted(call.out) =>
                  /\ call.at - tok.ts <= PAGE_TOKEN_TTL
                  /\ \A later \in call.at..MaxClock :
                         later - tok.ts > PAGE_TOKEN_TTL =>
                             InvalidPageToken(
                                 process_page_token(call.request, call.path,
                                                    later))

C15_Witness ==
    /\ call.fn = "process_page_token"
    /\ ProducedByEncode(call.request.page_token, call.at)
    /\ MadeFor(call.request.page_token, call.request.filter, call.path,
               PyStr(">i:2"), call.at - PAGE_TOKEN_TTL - 1)
    /\ InvalidPageToken(call.out)

\* C19: process_page_size gives DEFAULT_PAGE_SIZE for 0 and otherwise the
\* smaller of the requested size and MAX_PAGE_SIZE
C19_EffectivePageSize ==
    call.fn = "process_page_size" =>
        LET r == call.max_page_size
        IN  /\ r = 0 => call.out = DEFAULT_PAGE_SIZE
            /\ (r # 0 /\ r <= MAX_PAGE_SIZE) => call.out = r
            /\ r > MAX_PAGE_SIZE => call.out = MAX_PAGE_SIZE

C19_Witness ==
    /\ call.fn = "process_page_size"
    /\ call.max_page_size > MAX_PAGE_SIZE
    /\ call.out = MAX_PAGE_SIZE

\* C20: with no page token the call returns None (the first page), for
\* every filter and path, with no exception raised and with neither the
\* decryption nor the request hash made use of
C20_FirstPage ==
    (call.fn = "process_page_token" /\ call.request.page_token = PyNone)
    => /\ Accepted(call.out)
       /\ call.out.value = PyNone
       /\ call.out.used = {}

C20_Witness ==
    /\ call.fn = "process_page_token"
    /\ call.request.page_token = PyNone
    /\ call.request.filter = "y" /\ call.path = "/volumes"
    /\ "key" \in DOMAIN held
    /\ call.out.value = PyNone

\* The volume row of the request, if it is committed
OwnRows(q) == {x \in volume : Key(x) = <<q.volume_id, q.novel_id>>}

\* update_volume of the request has passed its clamp for a new order that
\* differs from the old one
PastMoveClamp(q) ==
    /\ q.kind \in {"patch", "move"} /\ q.moved
    /\ q.pc # "update_volume"
    /\ q.data_order >= 1 /\ q.data_order # q.old_order

\* C16: with n the next_order of the novel, a move to a new order above n
\* is carried out as a move to n and a move to a new order up to n as
\* asked: the order the move uses, and the order of the volume after the
\* move is committed, is the smaller of the new order and n
C16_MoveClamp ==
    \A r \in Reqs :
        LET q == req[r]
            n == q.pre_vo.next_order
        IN  PastMoveClamp(q) =>
                /\ q.order = Min(q.data_order, n)
                /\ (q.pc = "done" /\ q.result = "ok") =>
                       /\ OwnRows(q) # {}
                       /\ \A x \in OwnRows(q) :
                              x.volume_order = Min(q.data_order, n)

C16_Witness ==
    \E r \in Reqs :
        /\ PastMoveClamp(req[r])
        /\ req[r].pc = "done" /\ req[r].result = "ok"
        /\ req[r].data_order > req[r].pre_vo.next_order
        /\ \E x \in OwnRows(req[r]) :
               x.volume_order = req[r].pre_vo.next_order

\* insert_volume of the request has chosen the order of the new volume
PastInsertClamp(q) ==
    /\ q.kind = "create"
    /\ \/ q.pc \in StatementPcs \cup {"meili"}
       \/ q.pc = "done" /\ q.writes > 0

\* C17: with n the next_order of the novel (at most VOLUME_ORDER_MAX), an
\* insert with no order or an order above n assigns n, and once committed
\* has changed no volume the novel had; an insert with an order up to n
\* assigns that order; the order assigned is in 1..n
C17_InsertClamp ==
    \A r \in Reqs :
        LET q == req[r]
            n == q.pre_vo.next_order
            committed == q.pc = "done" /\ q.result = "ok"
        IN  PastInsertClamp(q) =>
                /\ n <= VOLUME_ORDER_MAX
                /\ q.order \in 1..n
                /\ (q.data_order = NONE \/ q.data_order > n) => q.order = n
                /\ (q.data_order # NONE /\ q.data_order <= n) =>
                       q.order = q.data_order
                /\ committed =>
                       /\ OwnRows(q) # {}
                       /\ \A x \in OwnRows(q) : x.volume_order = q.order
                       /\ (q.data_order = NONE \/ q.data_order > n) =>
                              Children(q.pre_volume, q.novel_id) \subseteq volume

C17_Witness ==
    \E r \in Reqs :
        /\ PastInsertClamp(req[r])
        /\ req[r].pc = "done" /\ req[r].result = "ok"
        /\ req[r].data_order > req[r].pre_vo.next_order
        /\ Children(req[r].pre_volume, req[r].novel_id) # {}
        /\ \E x \in OwnRows(req[r]) :
               x.volume_order = req[r].pre_vo.next_order

\* Two titles of the list have the same language
Repeats(titles) ==
    \E i, j \in 1..Len(titles) : i < j /\ titles[i] = titles[j]

\* The request is one the handler has to refuse
Invalid(q) ==
    \/ /\ q.kind = "create"
       /\ \/ Repeats(q.titles)
          \/ q.novel_id \notin novel
          \/ q.pre_vo.next_order > VOLUME_ORDER_MAX
    \/ /\ q.kind = "patch"
       /\ \/ select_volume(q.pre_volume, q.novel_id, q.volume_id) = {}
          \/ Repeats(q.titles)

ValidationCauses == {"repeated_lang", "no_novel", "no_volume", "max_volumes"}

\* C18: a create or update request with a repeated title language, an
\* unknown novel or volume, or a novel that has the maximum of volumes ends
\* with the client or not-found error of that check in its first step, and
\* a request that ended with such an error has sent no write statement, has
\* not written the search index and has changed no row
C18_FailFast ==
    \A r \in Reqs :
        LET q == req[r]
        IN  /\ Invalid(q) =>
                   /\ q.pc = "done"
                   /\ q.result \in {"ClientException", "NotFoundException"}
                   /\ q.cause \in ValidationCauses
            /\ q.cause \in ValidationCauses =>
                   /\ q.pc = "done"
                   /\ q.writes = 0 /\ ~q.indexed
                   /\ q.rows = {} /\ q.ordw = {}
                   /\ q.tdel = {} /\ q.tadd = {}
                   /\ Untouched(r)

C18_Witness ==
    \E r \in Reqs :
        /\ req[r].kind = "patch" /\ req[r].cause = "repeated_lang"
        /\ select_volume(req[r].pre_volume, req[r].novel_id,
                         req[r].volume_id) # {}
        /\ req[r].data_order \in 1..VOLUME_ORDER_MAX
        /\ req[r].writes = 0

\* The rows of `volume` request r sees once its next statement has run, for
\* the statements of insert and move that write `volume`
AfterStatement(r) ==
    LET q == req[r]
        view == VisibleVolume(r)
    IN  IF q.pc = "update_subsequent_orders"
        THEN LET targets == subsequent_rows(view, q.novel_id, q.order)
             IN  ViewAfter(r, {[x EXCEPT !.volume_order = @ + 1]
                                  : x \in targets})
        ELSE IF q.pc = "update_volume_shift"
        THEN LET targets == shift_rows(view, q.novel_id, q.old_order, q.order)
                 d == shift_delta(q.old_order, q.order)
             IN  ViewAfter(r, {[x EXCEPT !.volume_order = @ + d]
                                  : x \in targets})
        ELSE IF q.pc = "update_volume_set"
        THEN ViewAfter(r, {[x EXCEPT !.volume_order = q.order]
                              : x \in set_rows(view, q.volume_id)})
        ELSE IF q.pc = "insert_volume_row"
        THEN view \cup {[volume_id |-> 0, novel_id |-> q.novel_id,
                         volume_order |-> q.order]}
        ELSE view

\* C21: no statement of an insert or of a move (the bulk shift, the insert
\* of the new volume, the final assignment of the moved volume) ends with
\* two volumes of a novel at the same order; the shift of a move, run while
\* the moved volume still has its old order, gives no other volume that
\* order
C21_NoCollision ==
    \A r \in Reqs :
        /\ UniqueOrder(AfterStatement(r))
        /\ req[r].pc = "update_volume_shift" =>
               \A x \in AfterStatement(r) :
                   (x.novel_id = req[r].novel_id
                        /\ x.volume_order = req[r].old_order)
                   => x.volume_id = req[r].volume_id

\* C22: in every committed state each volume_ordering row has next_order
\* equal to the number of volumes of its novel plus one, within
\* 1..VOLUME_ORDER_MAX + 1, and the assertion on next_order in insert_volume
\* and update_volume never fails
C22_CounterInvariant ==
    /\ \A n \in DOMAIN volume_ordering :
           /\ volume_ordering[n].next_order = Count(volume, n) + 1
           /\ volume_ordering[n].next_order >= 1
           /\ volume_ordering[n].next_order <= VOLUME_ORDER_MAX + 1
    /\ \A r \in Reqs : req[r].cause # "AssertionError"

\* C23: no insert or move writes, committed or still inside its
\* transaction, a volume_order below 1 or above VOLUME_ORDER_MAX; every
\* statement of a move on a novel that holds VOLUME_ORDER_MAX volumes assigns
\* orders in 1..VOLUME_ORDER_MAX only
C23_RankBound ==
    /\ \A x \in volume \cup UNION {req[r].rows : r \in Reqs} :
           x.volume_order \in 1..VOLUME_ORDER_MAX
    /\ \A r \in Reqs :
           (/\ req[r].kind \in {"patch", "move"}
            /\ Count(volume, req[r].novel_id) = VOLUME_ORDER_MAX)
           => \A x \in AfterStatement(r) :
                  x.volume_order \in 1..VOLUME_ORDER_MAX

\* A move on a full novel has run a statement
C23_Witness ==
    \E r \in Reqs :
        /\ req[r].kind = "patch"
        /\ req[r].moved
        /\ req[r].writes >= 1
        /\ Count(volume, req[r].novel_id) = VOLUME_ORDER_MAX
        /\ req[r].data_order \in 1..VOLUME_ORDER_MAX

\* C24: whichever way the statements of two concurrent requests for one
\* novel interleave, once both have committed the orders of the novel are
\* 1..count without gap or duplicate and next_order is count + 1
C24_ConcurrentOutcome ==
    (\A r \in Reqs : /\ req[r].kind \in {"create", "patch"}
                     /\ req[r].pc = "done"
                     /\ req[r].result = "ok")
    => /\ Dense(volume, 1)
       /\ UniqueOrder(volume)
       /\ volume_ordering[1].next_order = Count(volume, 1) + 1

-----------------------------------------------------------------------------
(* Requests that differ in what the request hash leaves out *)

\* Values of request.q, request.sort and request.max_page_size
QTerms == {"", "a"}
Sorts == {<< >>, <<"title:asc">>}
PageSizes == {0, 1}

\* A QueryRequest with its query term, sort order and page size
QueryRequest(f, q, sort, size, tok) ==
    [filter |-> f, q |-> q, sort |-> sort, max_page_size |-> size,
     page_token |-> tok]

QueryRequests(tok) ==
    {QueryRequest(f, q, sort, size, tok) :
        f \in Filters, q \in QTerms, sort \in Sorts, size \in PageSizes}

\* The path of the web novel router
PATH == "/web-novels"

\* The page the response to a request was made from
ScopePage ==
    [paging |-> [has_previous |-> TRUE, has_next |-> TRUE,
                 bookmark_previous |-> PyStr("<i:1"),
                 bookmark_next |-> PyStr(">i:2")]]

\* A response with page tokens to one request
call_issue_page_tokens(request, path) ==
    /\ call' = [fn |-> "create_page_tokens", request |-> request,
                path |-> path, page |-> ScopePage, at |-> clock,
                out |-> create_page_tokens(request, path, ScopePage, clock)]
    /\ UNCHANGED <<clock, held, tables>>

\* The client sends a page token of the last response with a request of
\* its choice
call_follow_page_token(request, path) ==
    /\ call.fn = "create_page_tokens"
    /\ \E tok \in {call.out[1], call.out[2]} \ {UNSET_TOKEN} :
           LET sent == [request EXCEPT !.page_token = tok]
           IN  call' = [fn |-> "process_page_token", request |-> sent,
                        path |-> path, at |-> clock,
                        issued_for |-> call.request, issued_at |-> call.at,
                        out |-> process_page_token(sent, path, clock)]
    /\ UNCHANGED <<clock, held, tables>>

NextScope ==
    \/ tick
    \/ \E request \in QueryRequests(PyNone) :
           call_issue_page_tokens(request, PATH)
    \/ \E request \in QueryRequests(PyNone) :
           call_follow_page_token(request, PATH)

SpecScope == Init /\ [][NextScope]_vars

\* C25: the request hash is a function of the filter and the path alone:
\* requests that agree on both and differ in sort order, query term or page
\* size have the same hash, and a token issued for one of them is accepted
\* for the other and gives the bookmark it was made for
C25_FingerprintScope ==
    /\ \A a, b \in QueryRequests(PyNone) :
           a.filter = b.filter
           => hash_request_contents(a, PATH) = hash_request_contents(b, PATH)
    /\ (/\ call.fn = "process_page_token"
        /\ "issued_for" \in DOMAIN call
        /\ call.issued_for.filter = call.request.filter
        /\ call.at - call.issued_at <= PAGE_TOKEN_TTL)
       => /\ Accepted(call.out)
          /\ call.out.value \in Bookmarks
          /\ \E ts \in 0..call.at :
                 MadeFor(call.request.page_token, call.request.filter,
                         call.path, call.out.value, ts)

\* A token issued for one request is accepted for a request with another
\* sort order, another query term and another page size
C25_Witness ==
    /\ call.fn = "process_page_token"
    /\ "issued_for" \in DOMAIN call
    /\ call.issued_for.filter = call.request.filter
    /\ call.issued_for.q # call.request.q
    /\ call.issued_for.sort # call.request.sort
    /\ call.issued_for.max_page_size # call.request.max_page_size
    /\ call.issued_at < call.at
    /\ Accepted(call.out)

\* Ids of the volumes of novel n
ChildIds(rows, n) == {x.volume_id : x \in Children(rows, n)}

\* C26: a successful insert raises next_order of the novel by exactly 1 and
\* the number of its volumes by exactly 1; a successful move leaves
\* next_order, the number of volumes and the set of volume ids of the novel
\* as they were
C26_CounterFrame ==
    \A r \in Reqs :
        LET q == req[r]
            n == q.novel_id
        IN  (q.pc = "done" /\ q.result = "ok") =>
                /\ q.kind = "create" =>
                       /\ volume_ordering[n].next_order
                              = q.pre_vo.next_order + 1
                       /\ Count(volume, n) = Count(q.pre_volume, n) + 1
                /\ q.kind \in {"patch", "move"} =>
                       /\ volume_ordering[n].next_order
                              = q.pre_vo.next_order
                       /\ Count(volume, n) = Count(q.pre_volume, n)
                       /\ ChildIds(volume, n) = ChildIds(q.pre_volume, n)

\* A move that changed an order has committed
C26_Witness ==
    \E r \in Reqs :
        /\ req[r].kind = "patch"
        /\ req[r].pc = "done"
        /\ req[r].result = "ok"
        /\ req[r].order # req[r].old_order
        /\ Count(volume, req[r].novel_id) >= 2

-----------------------------------------------------------------------------
(* Volumes of two novels with the same volume_id *)

\* The novel whose volumes no request names
OtherNovel == 2

\* volume_id is not unique on its own (the primary key is (volume_id,
\* novel_id)): novels 1 and 2 each hold volumes 1..k at the orders 1..k
InitIso ==
    \E k1, k2 \in 1..(VOLUME_ORDER_MAX - 1) :
        LET held_by == [n \in SeedNovels |-> IF n = 1 THEN k1 ELSE k2]
        IN  /\ novel = SeedNovels
            /\ volume = {x \in [volume_id : VolumeIds, novel_id : SeedNovels,
                                 volume_order : 1..VOLUME_ORDER_MAX] :
                             /\ x.volume_order = x.volume_id
                             /\ x.volume_id <= held_by[x.novel_id]}
            /\ volume_ordering =
                   [n \in SeedNovels |->
                       [next_order |-> held_by[n] + 1,
                        ordering |-> [i \in 1..held_by[n] |-> i]]]
            /\ volume_title = {}
            /\ meili_index = {}
            /\ req = [r \in Reqs |-> IdleReq]
            /\ InitCodec

\* Requests served one at a time, all for novel 1
NextIso ==
    \/ \E o \in OrderInputs : create_volume(1, 1, o, <<"en">>)
    \/ insert_volume(1)
    \/ update_subsequent_orders(1)
    \/ insert_volume_row(1)
    \/ insert_into_ordering(1)
    \/ upsert_volume_titles(1)
    \/ \E v \in VolumeIds, o \in 1..VOLUME_ORDER_MAX,
          t \in {<<"en">>, UNSET_TITLES} :
           patch_volume(1, 1, v, o, t)
    \/ update_volume(1)
    \/ update_volume_shift(1)
    \/ update_volume_set(1)
    \/ clear_volume_titles(1)
    \/ meili_write(1)
    \/ meili_fails(1)
    \/ commit(1)
    \/ statement_fails(1)

SpecIso == InitIso /\ [][NextIso]_vars

\* C27: an insert or a move on one novel changes no order of a volume of
\* another novel and no field of the other novel's volume_ordering row, also
\* when volumes of the two novels have the same volume_id
C27_ParentIsolation ==
    \A r \in Reqs :
        LET q == req[r]
            was == Children(q.pre_volume, OtherNovel)
        IN  (q.kind \in {"create", "patch"} /\ q.novel_id # OtherNovel) =>
                /\ Children(VisibleVolume(r), OtherNovel) = was
                /\ Children(volume, OtherNovel) = was
                /\ volume_ordering[OtherNovel].next_order
                       = Cardinality(was) + 1
                /\ volume_ordering[OtherNovel].ordering
                       = [i \in 1..Cardinality(was) |-> i]

\* C29: the representation made for a volume, returned and written to the
\* search index, has novel_id equal to the id of the volume's novel and
\* volume_id equal to '<novel_id>-<volume_id>', and parse_api_volume_id of
\* that volume_id gives back the pair (novel_id, volume_id)
C29_VolumeRepresentation ==
    /\ \A r \in Reqs :
           LET q == req[r]
           IN  q.indexed =>
                   /\ q.res.novel_id = ToString(q.novel_id)
                   /\ q.res.volume_id
                          = ToString(q.novel_id) \o "-" \o ToString(q.volume_id)
                   /\ parse_api_volume_id(q.res.volume_id)
                          = <<ToString(q.novel_id), ToString(q.volume_id)>>
    /\ \A d \in meili_index :
           d.novel_id = parse_api_volume_id(d.volume_id)[1]

-----------------------------------------------------------------------------
(* Titles in more than one language *)

\* Values of Language, and the lists of titles a body may hold, each title
\* by its language (VolumeTitlesMeta: at least one title)
Langs == {"en", "ja"}
MaxTitles == 3
TitleLists == UNION {[1..k -> Langs] : k \in 1..MaxTitles}

\* Volumes are appended to novel 1 and their titles replaced
NextTitles ==
    \/ \E t \in TitleLists : create_volume(1, 1, NONE, t)
    \/ insert_volume(1)
    \/ insert_volume_row(1)
    \/ insert_into_ordering(1)
    \/ upsert_volume_titles(1)
    \/ \E v \in VolumeIds, t \in TitleLists : patch_volume(1, 1, v, UNSET, t)
    \/ clear_volume_titles(1)
    \/ meili_write(1)
    \/ meili_fails(1)
    \/ commit(1)
    \/ statement_fails(1)

SpecTitles == Init /\ [][NextTitles]_vars

\* The language of the first title that has the language of an earlier one
FirstRepeated(titles) ==
    LET second == {j \in 1..Len(titles) :
                      \E i \in 1..(j - 1) : titles[i] = titles[j]}
    IN  titles[CHOOSE j \in second : \A k \in second : j <= k]

\* Languages of the titles stored for the volume of request q
StoredLangs(q) ==
    {t.lang : t \in {u \in volume_title : /\ u.volume_id = q.volume_id
                                          /\ u.novel_id = q.novel_id}}

\* C30: find_repeated_lang_titles gives a language exactly when two titles
\* of the list have the same language, namely the language of the first
\* title that repeats an earlier one, and None otherwise; a create or update
\* request with such a list is refused with a client error; an accepted
\* update with the titles T leaves exactly the titles T stored for the
\* volume
C30_OneTitlePerLanguage ==
    \A r \in Reqs :
        LET q == req[r]
        IN  (q.kind \in {"create", "patch"} /\ q.titles # UNSET_TITLES) =>
                /\ find_repeated_lang_titles(q.titles)
                       = IF Repeats(q.titles) THEN FirstRepeated(q.titles)
                         ELSE "None"
                /\ Repeats(q.titles) =>
                       /\ q.pc = "done"
                       /\ q.result \in {"ClientException", "NotFoundException"}
                /\ (q.kind = "patch" /\ q.pc = "done" /\ q.result = "ok") =>
                       StoredLangs(q) = {q.titles[i] : i \in 1..Len(q.titles)}

\* An update with titles in two languages has committed, next to another
\* volume that has titles
C30_Witness ==
    \E r \in Reqs :
        /\ req[r].kind = "patch"
        /\ req[r].pc = "done"
        /\ req[r].result = "ok"
        /\ Len(req[r].titles) = 2
        /\ StoredLangs(req[r]) = Langs
        /\ \E t \in volume_title : t.volume_id # req[r].volume_id

-----------------------------------------------------------------------------
(* GET /web-novels: pages of the novels in the order of novel_id *)

\* The rows of a query in the order of its key
Ordered(keys) ==
    CHOOSE rows \in [1..Cardinality(keys) -> keys] :
        \A i, j \in 1..Cardinality(keys) : i < j => rows[i] < rows[j]

\* The bookmark of a place in a direction, as a str
serialize_bookmark(place, backwards) ==
    PyStr((IF backwards THEN "<" ELSE ">")
          \o (IF place = {} THEN ""
              ELSE "i:" \o ToString(CHOOSE k \in place : TRUE)))

\* The place and the direction a page value stands for: None is the start,
\* (None, True) the end, a str a bookmark
unserialize_bookmark(page) ==
    IF page = PyNone THEN [place |-> {}, backwards |-> FALSE]
    ELSE IF page = LastPage THEN [place |-> {}, backwards |-> TRUE]
    ELSE [place |-> {k \in NovelIds :
                       SubSeq(page.s, 2, Len(page.s)) = "i:" \o ToString(k)},
          backwards |-> SubSeq(page.s, 1, 1) = "<"]

\* The first n rows and the last n rows of a sequence
FirstRows(rows, n) == SubSeq(rows, 1, Min(n, Len(rows)))
LastRows(rows, n) == SubSeq(rows, Len(rows) - Min(n, Len(rows)) + 1, Len(rows))

\* select_page: up to per_page rows after the place (before it, when
\* backwards), whether a row lies on either side of the page, and the
\* bookmarks of its two ends.  One row more than per_page is fetched to see
\* whether the page goes on; the side the page was reached from counts as
\* having rows when a place was given
select_page(rows, per_page, page) ==
    LET at == unserialize_bookmark(page)
        After(k) == \A p \in at.place : k > p
        Before(k) == \A p \in at.place : k < p
        matching == IF at.backwards THEN SelectSeq(rows, Before)
                    ELSE SelectSeq(rows, After)
        got == IF at.backwards THEN LastRows(matching, per_page)
               ELSE FirstRows(matching, per_page)
        excess == Len(matching) > per_page
        first == IF got = << >> THEN at.place ELSE {got[1]}
        last == IF got = << >> THEN at.place ELSE {got[Len(got)]}
    IN  [rows |-> got,
         paging |->
             [has_previous |-> IF at.backwards THEN excess
                               ELSE at.place # {},
              has_next |-> IF at.backwards THEN at.place # {} ELSE excess,
              bookmark_previous |-> serialize_bookmark(first, TRUE),
              bookmark_next |-> serialize_bookmark(last, FALSE)]]

\* query that always selects from the start
query_from_start(rows, max_page_size, bookmark) ==
    select_page(Ordered(rows), max_page_size, PyNone)

\* select(Novel).order_by(Novel.novel_id), paged
query(rows, max_page_size, bookmark) ==
    select_page(Ordered(rows), max_page_size, bookmark)

\* What the client has of the pages it fetched one after the other: the
\* rows so far, the number of pages and the page token it began with
Followed(request) ==
    IF /\ call.fn = "query_web_novels"
       /\ call.raised = "None"
       /\ request.page_token # PyNone
       /\ request.page_token = call.out[2]
    THEN [visited |-> call.visited, pages |-> call.pages,
          origin |-> call.origin]
    ELSE [visited |-> << >>, pages |-> 0, origin |-> request.page_token]

\* The handler of GET /web-novels
query_web_novels(request) ==
    LET bookmark == process_page_token(request, PATH, clock)
        page == query(novel, process_page_size(request.max_page_size),
                      bookmark.value)
        so_far == Followed(request)
    IN  /\ call' =
               IF bookmark.raised # "None"
               THEN [fn |-> "query_web_novels", request |-> request,
                     at |-> clock, raised |-> bookmark.raised]
               ELSE [fn |-> "query_web_novels", request |-> request,
                     at |-> clock, raised |-> "None", page |-> page,
                     out |-> create_page_tokens(request, PATH, page, clock),
                     visited |-> so_far.visited \o page.rows,
                     pages |-> so_far.pages + 1,
                     origin |-> so_far.origin]
        /\ UNCHANGED <<clock, held, tables>>

\* Values of max_page_size of the requests for pages
KeysetSizes == {0, 1, 2}

\* The novels 1..k, created by POST /novels
InitKeyset ==
    \E k \in 0..MaxNovelId :
        /\ novel = 1..k
        /\ volume = {}
        /\ volume_ordering = [n \in {} |-> IdleReq.vo]
        /\ volume_title = {}
        /\ meili_index = {}
        /\ req = [r \in Reqs |-> IdleReq]
        /\ InitCodec

\* A client asks for the first page or for the last page, or follows the
\* next page token of the response it has, as time passes
NextKeyset ==
    \/ tick
    \/ \E size \in KeysetSizes :
           query_web_novels(QueryRequest("x", "", << >>, size, PyNone))
    \/ \E size \in KeysetSizes :
           query_web_novels(QueryRequest("x", "", << >>, size, PyStr("last")))
    \/ /\ call.fn = "query_web_novels"
       /\ call.raised = "None"
       /\ call.out[2] # UNSET_TOKEN
       /\ query_web_novels([call.request EXCEPT !.page_token = call.out[2]])

SpecKeyset == InitKeyset /\ [][NextKeyset]_vars

====
